---------------------------- MODULE Spec2Model ----------------------------
(***************************************************************************)
(* A model of the NFTViewer component (src/NFTViewer.tsx): the portfolio   *)
(* aggregation run fetchNFTs with its two fan-outs (fetchNFTMetadata per   *)
(* owned index, fetchOpenSeaPrice per surviving entry), the React state it *)
(* publishes to (nfts, loading, error, priceLoading) and the console it    *)
(* logs to.                                                                *)
(*                                                                         *)
(* JavaScript values.  An optional value (undefined / null, or a missing   *)
(* object field) is the empty tuple; a present value v is <<v>>.  A string *)
(* that the code parses is a tuple of one-character strings.  A number is  *)
(* a non-negative integer counting units of 10^-MaxDecimals (so a division *)
(* by 10^d, d <= MaxDecimals, is exact); NaN is the number -1.             *)
(***************************************************************************)
EXTENDS Integers, Sequences, FiniteSets, Bags, TLC

VARIABLES
    walletAddress,   \* the component's inputs (contractAddress, walletAddress)
    started,         \* how many times the effect has called fetchNFTs
    runs,            \* the state of each call of fetchNFTs
    nfts,            \* useState<NFT[]>([])
    loading,         \* useState(true)
    error,           \* useState<string | null>(null)
    priceLoading,    \* useState(false)
    console,         \* the lines written by console.error, a bag
    pf,              \* one call of fetchOpenSeaPrice on a given response
    mf,              \* one call of fetchNFTMetadata on a given tokenURI and document
    sortBy,          \* useState<'name' | 'tokenId' | 'collection' | 'price'>('tokenId')
    filter,          \* useState('')
    app              \* the state of App, the catalog browser, and what it has rendered

\* The state the view controls (the sort select, the search box) set.
view == <<sortBy, filter>>

vars == <<walletAddress, started, runs, nfts, loading, error, priceLoading, console, pf, mf, view, app>>

---------------------------------------------------------------------------
(* Bounds *)

\* Largest balanceOf(owner) answered in a single run (Spec).
MaxBalance == 3
\* Largest balanceOf(owner) answered when runs overlap (SpecRuns).
RunsMaxBalance == 1
\* Number of calls of fetchNFTs (changes of the inputs, the mount included).
MaxRuns == 2
\* Number of distinct inputs (contract, wallet).
NumInputs == 2
\* Largest number of listings in a marketplace response.
MaxListings == 3
\* Largest decimals of a payment token.
MaxDecimals == 2

Inputs == 1..NumInputs
RunIds == 1..MaxRuns

---------------------------------------------------------------------------
(* JavaScript values *)

undefined == <<>>
Some(v) == <<v>>
IsDefined(x) == x # <<>>

NaN == -1

\* Truthiness of a number: 0 and NaN are falsy.
TruthyNumber(n) == n # 0 /\ n # NaN

Digits == <<"0", "1", "2", "3", "4", "5", "6", "7", "8", "9">>
IsDigit(c) == \E d \in 1..10 : Digits[d] = c
DigitValue(c) == (CHOOSE d \in 1..10 : Digits[d] = c) - 1

\* The longest prefix of s made of digits.
RECURSIVE DigitPrefix(_)
DigitPrefix(s) ==
    IF s = <<>> \/ ~IsDigit(Head(s)) THEN <<>>
    ELSE <<Head(s)>> \o DigitPrefix(Tail(s))

RECURSIVE DecimalValue(_)
DecimalValue(s) ==
    IF s = <<>> THEN 0
    ELSE 10 * DecimalValue(SubSeq(s, 1, Len(s) - 1)) + DigitValue(s[Len(s)])

RECURSIVE Pow10(_)
Pow10(d) == IF d = 0 THEN 1 ELSE 10 * Pow10(d - 1)

\* parseFloat(s): the number its leading digits spell, NaN when it has none.
\* The result is in whole units.
parseFloat(s) ==
    IF DigitPrefix(s) = <<>> THEN NaN ELSE DecimalValue(DigitPrefix(s))

\* n / Math.pow(10, d), n in whole units, d an optional number: the quotient in
\* units of 10^-MaxDecimals. Math.pow(10, undefined) is NaN and so is the quotient.
Quotient(n, d) ==
    IF n = NaN \/ ~IsDefined(d) THEN NaN
    ELSE n * Pow10(MaxDecimals - d[1])

---------------------------------------------------------------------------
(* fetchOpenSeaPrice *)

\* data.sell_orders?.[0]
FirstOrder(data) ==
    IF IsDefined(data.sell_orders) /\ Len(data.sell_orders[1]) > 0
    THEN Some(data.sell_orders[1][1])
    ELSE undefined

\* data.sell_orders?.[0]?.current_price is truthy (a non-empty string)
HasCurrentPrice(data) ==
    /\ IsDefined(FirstOrder(data))
    /\ IsDefined(FirstOrder(data)[1].current_price)
    /\ FirstOrder(data)[1].current_price[1] # <<>>

\* Reading .decimals of an undefined payment_token_contract throws a TypeError.
ReadThrows(data) ==
    HasCurrentPrice(data) /\ ~IsDefined(FirstOrder(data)[1].payment_token_contract)

\* const lowestPrice = ... ? parseFloat(...) / Math.pow(10, ...decimals) : null
lowestPrice(data) ==
    IF HasCurrentPrice(data)
    THEN Some(Quotient(parseFloat(FirstOrder(data)[1].current_price[1]),
                       FirstOrder(data)[1].payment_token_contract[1].decimals))
    ELSE undefined

\* return lowestPrice ? { price: lowestPrice, currency: ...symbol } : null
priceDataOf(data) ==
    IF IsDefined(lowestPrice(data)) /\ TruthyNumber(lowestPrice(data)[1])
    THEN Some([price |-> lowestPrice(data)[1],
               currency |-> FirstOrder(data)[1].payment_token_contract[1].symbol])
    ELSE undefined

\* The whole function on the outcome of its request: what it returns (value) and
\* whether its catch block ran (caught), which writes one console line.
\* http is "rejected" (fetch throws), "notOk" (!response.ok), "badJson"
\* (response.json() throws) or "ok" (data is the parsed body).
fetchOpenSeaPrice(resp) ==
    IF resp.http # "ok" \/ ReadThrows(resp.data)
    THEN [value |-> undefined, caught |-> TRUE]
    ELSE [value |-> priceDataOf(resp.data), caught |-> FALSE]

\* { ...nft, lowestPrice: priceData?.price, currency: priceData?.currency }
withPrice(nft, priceData) ==
    [nft EXCEPT
        !.lowestPrice = IF IsDefined(priceData) THEN Some(priceData[1].price) ELSE undefined,
        !.currency = IF IsDefined(priceData) THEN priceData[1].currency ELSE undefined]

---------------------------------------------------------------------------
(* Marketplace responses *)

Chars(str) ==
    CASE str = "0" -> <<"0">>
      [] str = "200" -> <<"2", "0", "0">>
      [] str = "500" -> <<"5", "0", "0">>
      [] str = "800" -> <<"8", "0", "0">>

PriceStrings == {Chars("0"), Chars("200"), Chars("500"), Chars("800")}

PaymentTokens ==
    [decimals : {undefined, Some(0), Some(MaxDecimals)}, symbol : {undefined, Some("ETH")}]

Orders ==
    [current_price : {undefined} \cup {Some(p) : p \in PriceStrings},
     payment_token_contract : {undefined} \cup {Some(t) : t \in PaymentTokens}]

SeqsUpTo(S, n) == UNION {[1..k -> S] : k \in 0..n}

NoData == [sell_orders |-> undefined]

\* Every outcome of the request, with up to MaxListings listings.
Responses ==
    {[http |-> h, data |-> NoData] : h \in {"rejected", "notOk", "badJson", "ok"}}
    \cup {[http |-> "ok", data |-> [sell_orders |-> Some(l)]] : l \in SeqsUpTo(Orders, MaxListings)}

Order(p, d, s) ==
    [current_price |-> Some(Chars(p)),
     payment_token_contract |-> Some([decimals |-> d, symbol |-> s])]

Listed(l) == [http |-> "ok", data |-> [sell_orders |-> Some(l)]]

\* The outcomes a price request of a run is given: the three failures, no
\* listing, a listing, a listing without symbol, a listing without payment token.
RunResponses ==
    {[http |-> h, data |-> NoData] : h \in {"rejected", "notOk", "badJson"}}
    \cup {Listed(<<>>),
          Listed(<<Order("500", Some(MaxDecimals), Some("ETH"))>>),
          Listed(<<Order("500", Some(MaxDecimals), undefined)>>),
          Listed(<<[current_price |-> Some(Chars("500")), payment_token_contract |-> undefined]>>)}

---------------------------------------------------------------------------
(* fetchNFTMetadata *)

\* contract.tokenOfOwnerByIndex(walletAddress, index): the chain's enumeration,
\* distinct tokens at distinct indices and for distinct inputs.
tokenOfOwnerByIndex(w, index) == w * (MaxBalance + 2) + index

\* How one call of fetchNFTMetadata settles: it returns the entry ("ok"), or one
\* of its awaits throws and the catch block returns null.
MetadataFailures == {"tokenOfOwnerByIndex", "tokenURI", "fetch", "json"}
MetadataOutcomes == {"ok"} \cup MetadataFailures

\* Mutant: every call asks for the token at index 0.
entryOfFirstIndex(w, index) ==
    [tokenId |-> tokenOfOwnerByIndex(w, 0), lowestPrice |-> undefined, currency |-> undefined]

\* The object fetchNFTMetadata returns (lowestPrice and currency are not set).
entryOf(w, index) ==
    [tokenId |-> tokenOfOwnerByIndex(w, index), lowestPrice |-> undefined, currency |-> undefined]

\* Mutant: the catch block returns the entry it was building instead of null.
fetchNFTMetadataResultKeepsFailed(w, index, outcome) == Some(entryOf(w, index))

\* What the call for index returns: the entry, or null.
fetchNFTMetadataResult(w, index, outcome) ==
    IF outcome = "ok" THEN Some(entryOf(w, index)) ELSE undefined

---------------------------------------------------------------------------
(* fetchNFTs *)

IdleRun == [pc |-> "idle", input |-> 0, balance |-> 0, meta |-> <<>>, price |-> <<>>]

\* The call of fetchNFTs has started and has not reached the end of its finally block.
InFlight(run) == run.pc \in {"name", "symbol", "balanceOf", "metadata", "prices"}

\* A call fetchOpenSeaPrice(tokenId) that has not settled (resp is not read yet;
\* at is the number of calls of the run that settled before this one).
PendingPrice ==
    [st |-> "pending", tokenId |-> 0, at |-> 0, resp |-> [http |-> "rejected", data |-> NoData]]

\* The price calls of the run that have settled.
SettledPrices(run) == {k \in DOMAIN run.price : run.price[k].st = "settled"}

\* const nftResults = await Promise.all(nftPromises)
nftResults(run) ==
    [k \in 1..Len(run.meta) |-> fetchNFTMetadataResult(run.input, k - 1, run.meta[k])]

Unwrap(s) == [k \in 1..Len(s) |-> s[k][1]]

\* const validNFTs = nftResults.filter(nft => nft !== null)
validNFTs(run) == Unwrap(SelectSeq(nftResults(run), LAMBDA x : x # undefined))

\* Mutant: an entry whose price call returned null is left out.
nftsWithPricesOnlyPriced(run) ==
    LET priced == SelectSeq([k \in 1..Len(validNFTs(run)) |-> k],
                            LAMBDA k : IsDefined(fetchOpenSeaPrice(run.price[k].resp).value))
    IN [j \in 1..Len(priced) |->
           withPrice(validNFTs(run)[priced[j]],
                     fetchOpenSeaPrice(run.price[priced[j]].resp).value)]

\* Mutant: the prices are attached in the order the calls settled, not in the
\* order they were issued.
nftsWithPricesInCompletionOrder(run) ==
    [k \in 1..Len(validNFTs(run)) |->
        LET j == CHOOSE j \in DOMAIN run.price : run.price[j].at = k - 1
        IN withPrice(validNFTs(run)[k], fetchOpenSeaPrice(run.price[j].resp).value)]

\* const nftsWithPrices = await Promise.all(validNFTs.map(...))
nftsWithPrices(run) ==
    [k \in 1..Len(validNFTs(run)) |->
        withPrice(validNFTs(run)[k], fetchOpenSeaPrice(run.price[k].resp).value)]

\* console.error(msg, error): the message (with the index it interpolates, if
\* any) and the error that was caught.
Line(msg, index, err) == [msg |-> msg, index |-> index, error |-> err]

\* The effect calls fetchNFTs: its synchronous part, up to await contract.name().
fetchNFTsStart(r, w) ==
    /\ loading' = TRUE
    /\ error' = undefined
    /\ runs' = [runs EXCEPT ![r] = [IdleRun EXCEPT !.pc = "name", !.input = w]]
    /\ started' = r
    /\ UNCHANGED <<nfts, priceLoading, console, pf, mf, view, app>>

\* Mutant: the catch block logs and does not call setError.
fetchNFTsCatchLogsOnly(r, err) ==
    /\ console' = console (+) SetToBag({Line("Error fetching NFTs", undefined, err)})
    /\ loading' = FALSE
    /\ priceLoading' = FALSE
    /\ runs' = [runs EXCEPT ![r].pc = "failed"]
    /\ UNCHANGED <<walletAddress, started, nfts, error, pf, mf, view, app>>

\* The catch block and the finally block of fetchNFTs, err being what was thrown.
fetchNFTsCatch(r, err) ==
    /\ console' = console (+) SetToBag({Line("Error fetching NFTs", undefined, err)})
    /\ error' = Some("Failed to fetch NFTs. Please check your contract address and wallet address.")
    /\ loading' = FALSE
    /\ priceLoading' = FALSE
    /\ runs' = [runs EXCEPT ![r].pc = "failed"]
    /\ UNCHANGED <<walletAddress, started, nfts, pf, mf, view, app>>

\* useEffect(() => { fetchNFTs() }, [contractAddress, walletAddress]) on mount.
Mount ==
    /\ started = 0
    /\ fetchNFTsStart(1, walletAddress)
    /\ UNCHANGED walletAddress

\* The inputs change and the effect runs again, whatever the earlier runs are doing.
ChangeInputs(w) ==
    /\ started >= 1
    /\ started < MaxRuns
    /\ w # walletAddress
    /\ walletAddress' = w
    /\ fetchNFTsStart(started + 1, w)

\* await contract.name()
ContractName(r) ==
    /\ runs[r].pc = "name"
    /\ \/ /\ runs' = [runs EXCEPT ![r].pc = "symbol"]
          /\ UNCHANGED <<walletAddress, started, nfts, loading, error, priceLoading, console, pf, mf, view, app>>
       \/ fetchNFTsCatch(r, "name")

\* await contract.symbol()
ContractSymbol(r) ==
    /\ runs[r].pc = "symbol"
    /\ \/ /\ runs' = [runs EXCEPT ![r].pc = "balanceOf"]
          /\ UNCHANGED <<walletAddress, started, nfts, loading, error, priceLoading, console, pf, mf, view, app>>
       \/ fetchNFTsCatch(r, "symbol")

\* Mutant: the loop runs while i <= balance, one call too many.
ContractBalanceOfInclusive(r, maxBalance) ==
    /\ runs[r].pc = "balanceOf"
    /\ \E n \in 0..maxBalance :
          runs' = [runs EXCEPT ![r].pc = "metadata",
                               ![r].balance = n,
                               ![r].meta = [k \in 1..(n + 1) |-> "pending"]]
    /\ UNCHANGED <<walletAddress, started, nfts, loading, error, priceLoading, console, pf, mf, view, app>>

\* await contract.balanceOf(walletAddress), then the loop that calls
\* fetchNFTMetadata for every index, up to await Promise.all(nftPromises).
ContractBalanceOf(r, maxBalance) ==
    /\ runs[r].pc = "balanceOf"
    /\ \/ /\ \E n \in 0..maxBalance :
                runs' = [runs EXCEPT ![r].pc = "metadata",
                                     ![r].balance = n,
                                     ![r].meta = [k \in 1..n |-> "pending"]]
          /\ UNCHANGED <<walletAddress, started, nfts, loading, error, priceLoading, console, pf, mf, view, app>>
       \/ fetchNFTsCatch(r, "balanceOf")

\* console.error(`Error fetching NFT ${index}:`, error) in fetchNFTMetadata.
metadataErrorLine(index, err) == Line("Error fetching NFT", Some(index), err)

\* Mutants: the awaits named in escaping are outside the try block, so what they
\* throw rejects the promise, Promise.all rejects and the catch of fetchNFTs runs.
fetchNFTMetadataEscaping(r, index, escaping) ==
    /\ runs[r].pc = "metadata"
    /\ index < Len(runs[r].meta)
    /\ runs[r].meta[index + 1] = "pending"
    /\ \E outcome \in MetadataOutcomes :
          /\ runs' = [runs EXCEPT ![r].meta[index + 1] = outcome,
                                  ![r].pc = IF outcome \in escaping THEN "failed" ELSE @]
          /\ console' = IF outcome = "ok" THEN console
                        ELSE IF outcome \in escaping
                        THEN console (+) SetToBag({Line("Error fetching NFTs", undefined, outcome)})
                        ELSE console (+) SetToBag({metadataErrorLine(index, outcome)})
          /\ error' = IF outcome \in escaping THEN Some("Failed to fetch NFTs.") ELSE error
          /\ loading' = IF outcome \in escaping THEN FALSE ELSE loading
          /\ priceLoading' = IF outcome \in escaping THEN FALSE ELSE priceLoading
    /\ UNCHANGED <<walletAddress, started, nfts, pf, mf, view, app>>

fetchNFTMetadataNoTry(r, index) ==
    fetchNFTMetadataEscaping(r, index, {"tokenURI", "fetch", "json"})

fetchNFTMetadataEnumerationOutsideTry(r, index) ==
    fetchNFTMetadataEscaping(r, index, {"tokenOfOwnerByIndex"})

\* One call of fetchNFTMetadata settles.
fetchNFTMetadata(r, index) ==
    /\ runs[r].pc = "metadata"
    /\ index < Len(runs[r].meta)
    /\ runs[r].meta[index + 1] = "pending"
    /\ \E outcome \in MetadataOutcomes :
          /\ runs' = [runs EXCEPT ![r].meta[index + 1] = outcome]
          /\ console' = IF outcome = "ok" THEN console
                        ELSE console (+) SetToBag({metadataErrorLine(index, outcome)})
    /\ UNCHANGED <<walletAddress, started, nfts, loading, error, priceLoading, pf, mf, view, app>>

\* Mutant: the price stage starts without awaiting Promise.all(nftPromises).
MetadataJoinNoAwait(r) ==
    /\ runs[r].pc = "metadata"
    /\ priceLoading' = TRUE
    /\ runs' = [runs EXCEPT ![r].pc = "prices",
                            ![r].price = [k \in 1..Len(validNFTs(runs[r])) |->
                                [PendingPrice EXCEPT !.tokenId = validNFTs(runs[r])[k].tokenId]]]
    /\ UNCHANGED <<walletAddress, started, nfts, loading, error, console, pf, mf, view, app>>

\* Promise.all(nftPromises) resolves: filter, setPriceLoading(true), and the map
\* that calls fetchOpenSeaPrice for every valid entry.
MetadataJoin(r) ==
    /\ runs[r].pc = "metadata"
    /\ \A k \in 1..Len(runs[r].meta) : runs[r].meta[k] \in MetadataOutcomes
    /\ priceLoading' = TRUE
    /\ runs' = [runs EXCEPT ![r].pc = "prices",
                            ![r].price = [k \in 1..Len(validNFTs(runs[r])) |->
                                [PendingPrice EXCEPT !.tokenId = validNFTs(runs[r])[k].tokenId]]]
    /\ UNCHANGED <<walletAddress, started, nfts, loading, error, console, pf, mf, view, app>>

\* What the catch block of fetchOpenSeaPrice caught.
priceError(resp) == IF resp.http # "ok" THEN resp.http ELSE "TypeError"

\* One call of fetchOpenSeaPrice settles.
fetchOpenSeaPriceSettles(r, k) ==
    /\ runs[r].pc = "prices"
    /\ k \in 1..Len(runs[r].price)
    /\ runs[r].price[k].st = "pending"
    /\ \E resp \in RunResponses :
          /\ runs' = [runs EXCEPT ![r].price[k] =
                          [@ EXCEPT !.st = "settled", !.resp = resp,
                                    !.at = Cardinality(SettledPrices(runs[r]))]]
          /\ console' = IF fetchOpenSeaPrice(resp).caught
                        THEN console (+) SetToBag({Line("Error fetching OpenSea price", undefined, priceError(resp))})
                        ELSE console
    /\ UNCHANGED <<walletAddress, started, nfts, loading, error, priceLoading, pf, mf, view, app>>

\* Promise.all of the price calls resolves: setNfts(nftsWithPrices), then finally.
PricesJoin(r) ==
    /\ runs[r].pc = "prices"
    /\ \A k \in 1..Len(runs[r].price) : runs[r].price[k].st = "settled"
    /\ nfts' = nftsWithPrices(runs[r])
    /\ loading' = FALSE
    /\ priceLoading' = FALSE
    /\ runs' = [runs EXCEPT ![r].pc = "done"]
    /\ UNCHANGED <<walletAddress, started, error, console, pf, mf, view, app>>

---------------------------------------------------------------------------
(* One call of fetchOpenSeaPrice, on any response *)

IdleCall == [pc |-> "idle", resp |-> [http |-> "rejected", data |-> NoData],
             priceData |-> undefined, nft |-> entryOf(1, 0)]

\* const priceData = await fetchOpenSeaPrice(nft.tokenId)
PriceCall ==
    /\ pf.pc = "call"
    /\ pf' = [pf EXCEPT !.pc = "returned", !.priceData = fetchOpenSeaPrice(pf.resp).value]
    /\ UNCHANGED <<walletAddress, started, runs, nfts, loading, error, priceLoading, console, mf, view, app>>

\* return { ...nft, lowestPrice: priceData?.price, currency: priceData?.currency }
PriceMerge ==
    /\ pf.pc = "returned"
    /\ pf' = [pf EXCEPT !.pc = "merged", !.nft = withPrice(pf.nft, pf.priceData)]
    /\ UNCHANGED <<walletAddress, started, runs, nfts, loading, error, priceLoading, console, mf, view, app>>

---------------------------------------------------------------------------
(* The addresses fetchNFTMetadata rewrites: tokenURI and metadata.image *)

\* Largest number of pieces in an address.
MaxPieces == 3

\* An address is a tuple of pieces of text. The pieces are chosen so that
\* 'ipfs://' occurs in an address exactly where one of its pieces is 'ipfs://'.
IpfsScheme == "ipfs://"
IpfsGateway == "https://ipfs.io/ipfs/"
Pieces == {IpfsScheme, "https://host/", "Qm", "?u="}
Addresses == SeqsUpTo(Pieces, MaxPieces)

\* String.prototype.replace with a string pattern: the first occurrence of the
\* pattern, wherever it is, is replaced; without one the string is returned.
replace(str, pattern, replacement) ==
    IF \E k \in DOMAIN str : str[k] = pattern
    THEN LET first == CHOOSE k \in DOMAIN str :
                          /\ str[k] = pattern
                          /\ \A j \in 1..(k - 1) : str[j] # pattern
         IN SubSeq(str, 1, first - 1) \o <<replacement>> \o SubSeq(str, first + 1, Len(str))
    ELSE str

\* metadata.image?.replace('ipfs://', 'https://ipfs.io/ipfs/') || ''
imageOf(image) ==
    IF IsDefined(image) THEN replace(image[1], IpfsScheme, IpfsGateway) ELSE <<>>

IdleMetadataCall ==
    [pc |-> "idle", tokenURI |-> <<>>, image |-> undefined, url |-> <<>>, entryImage |-> <<>>]

\* fetch(tokenURI.replace('ipfs://', 'https://ipfs.io/ipfs/'))
MetadataFetch ==
    /\ mf.pc = "call"
    /\ mf' = [mf EXCEPT !.pc = "fetched", !.url = replace(mf.tokenURI, IpfsScheme, IpfsGateway)]
    /\ UNCHANGED <<walletAddress, started, runs, nfts, loading, error, priceLoading, console, pf, view, app>>

\* return { ..., image: metadata.image?.replace(...) || '', ... }
MetadataReturn ==
    /\ mf.pc = "fetched"
    /\ mf' = [mf EXCEPT !.pc = "returned", !.entryImage = imageOf(mf.image)]
    /\ UNCHANGED <<walletAddress, started, runs, nfts, loading, error, priceLoading, console, pf, view, app>>

---------------------------------------------------------------------------
(* App, the catalog browser: its state *)

\* const [itemsPerPage] = useState(12)
itemsPerPage == 12

\* What App has put on the screen: the spinner, or a page of the catalog.
Spinner == [spinner |-> TRUE, page |-> 1, pageCount |-> 0, paginatedNfts |-> <<>>]

\* The useState initial values, before the component is mounted. nfts and
\* filteredNfts hold arrays; aliased tells that both hold the same array, so
\* that a change made in place to one is a change of the other. shown is the
\* output of the last render that was committed.
InitialApp ==
    [mounted |-> FALSE,
     nfts |-> <<>>,
     filteredNfts |-> <<>>,
     aliased |-> FALSE,
     searchTerm |-> <<>>,
     platformFilter |-> <<>>,
     typeFilter |-> <<>>,
     collaboratorFilter |-> <<>>,
     loading |-> TRUE,
     page |-> 1,
     sortField |-> "Mint Date",
     sortOrder |-> "desc",
     shown |-> Spinner]

---------------------------------------------------------------------------
(* Specifications *)

InitComponent ==
    /\ started = 0
    /\ runs = [r \in RunIds |-> IdleRun]
    /\ nfts = <<>>
    /\ loading = TRUE
    /\ error = undefined
    /\ priceLoading = FALSE
    /\ console = EmptyBag
    /\ sortBy = "tokenId"
    /\ filter = <<>>

Init ==
    /\ walletAddress \in Inputs
    /\ InitComponent
    /\ pf = IdleCall
    /\ mf = IdleMetadataCall
    /\ app = InitialApp

RunStep(r, maxBalance) ==
    \/ ContractName(r)
    \/ ContractSymbol(r)
    \/ ContractBalanceOf(r, maxBalance)
    \/ \E index \in 0..(maxBalance - 1) : fetchNFTMetadata(r, index)
    \/ MetadataJoin(r)
    \/ \E k \in 1..maxBalance : fetchOpenSeaPriceSettles(r, k)
    \/ PricesJoin(r)

\* One run of fetchNFTs, for the inputs the component is mounted with.
Next ==
    \/ Mount
    \/ RunStep(1, MaxBalance)

Spec == Init /\ [][Next]_vars

\* Runs that overlap: the inputs change while earlier runs are in flight or done.
NextRuns ==
    \/ Mount
    \/ \E w \in Inputs : ChangeInputs(w)
    \/ \E r \in RunIds : RunStep(r, RunsMaxBalance)

SpecRuns == Init /\ [][NextRuns]_vars

\* The inputs change only once the run for the previous inputs has ended.
ChangeInputsWhenSettled(w) ==
    /\ \A r \in RunIds : ~InFlight(runs[r])
    /\ ChangeInputs(w)

\* Runs one after the other.
NextSeq ==
    \/ Mount
    \/ \E w \in Inputs : ChangeInputsWhenSettled(w)
    \/ \E r \in RunIds : RunStep(r, RunsMaxBalance)

SpecSeq == Init /\ [][NextSeq]_vars

\* A request that never gets a response: the awaits have no timeout, so the
\* promise stays pending for good.

\* contract.name(), contract.symbol() or contract.balanceOf() never answers.
ContractReadNeverResponds(r) ==
    /\ runs[r].pc \in {"name", "symbol", "balanceOf"}
    /\ runs' = [runs EXCEPT ![r].pc = "never"]
    /\ UNCHANGED <<walletAddress, started, nfts, loading, error, priceLoading, console, pf, mf, view, app>>

\* An await of fetchNFTMetadata(contract, index) never answers.
fetchNFTMetadataNeverResponds(r, index) ==
    /\ runs[r].pc = "metadata"
    /\ index < Len(runs[r].meta)
    /\ runs[r].meta[index + 1] = "pending"
    /\ runs' = [runs EXCEPT ![r].meta[index + 1] = "never"]
    /\ UNCHANGED <<walletAddress, started, nfts, loading, error, priceLoading, console, pf, mf, view, app>>

\* The fetch of fetchOpenSeaPrice never answers.
fetchOpenSeaPriceNeverResponds(r, k) ==
    /\ runs[r].pc = "prices"
    /\ k \in 1..Len(runs[r].price)
    /\ runs[r].price[k].st = "pending"
    /\ runs' = [runs EXCEPT ![r].price[k].st = "never"]
    /\ UNCHANGED <<walletAddress, started, nfts, loading, error, priceLoading, console, pf, mf, view, app>>

\* One run in which any request may never get a response.
NextNever ==
    \/ Mount
    \/ RunStep(1, MaxBalance)
    \/ ContractReadNeverResponds(1)
    \/ \E index \in 0..(MaxBalance - 1) : fetchNFTMetadataNeverResponds(1, index)
    \/ \E k \in 1..MaxBalance : fetchOpenSeaPriceNeverResponds(1, k)

SpecNever == Init /\ [][NextNever]_vars

InitPrice ==
    /\ walletAddress = 1
    /\ InitComponent
    /\ pf \in {[IdleCall EXCEPT !.pc = "call", !.resp = resp] : resp \in Responses}
    /\ mf = IdleMetadataCall
    /\ app = InitialApp

NextPrice ==
    \/ PriceCall
    \/ PriceMerge

SpecPrice == InitPrice /\ [][NextPrice]_vars

---------------------------------------------------------------------------
(* filteredAndSortedNFTs: the filter box and the sort select *)

\* Strings are tuples of one-character strings over the letters a, b, A, B.
LowerCaseLetters == <<"a", "b">>
UpperCaseLetters == <<"A", "B">>

IsUpper(c) == \E i \in DOMAIN UpperCaseLetters : UpperCaseLetters[i] = c

\* Position of the letter in the alphabet, whatever its case.
LetterRank(c) ==
    CHOOSE i \in DOMAIN LowerCaseLetters : LowerCaseLetters[i] = c \/ UpperCaseLetters[i] = c

\* String.prototype.toLowerCase
toLowerCase(str) == [k \in DOMAIN str |-> LowerCaseLetters[LetterRank(str[k])]]

\* String.prototype.includes
includes(str, part) ==
    \E i \in 0..(Len(str) - Len(part)) : SubSeq(str, i + 1, i + Len(part)) = part

\* Lexicographic comparison of two tuples of numbers: -1, 0 or 1.
RECURSIVE CompareKeys(_, _)
CompareKeys(x, y) ==
    IF x = <<>> /\ y = <<>> THEN 0
    ELSE IF x = <<>> THEN -1
    ELSE IF y = <<>> THEN 1
    ELSE IF Head(x) < Head(y) THEN -1
    ELSE IF Head(x) > Head(y) THEN 1
    ELSE CompareKeys(Tail(x), Tail(y))

\* String.prototype.localeCompare: the letters decide first, whatever their
\* case; between strings with the same letters, lower case comes first.
localeCompare(x, y) ==
    LET letters(str) == [k \in DOMAIN str |-> LetterRank(str[k])]
        cases(str) == [k \in DOMAIN str |-> IF IsUpper(str[k]) THEN 1 ELSE 0]
    IN IF CompareKeys(letters(x), letters(y)) # 0
       THEN CompareKeys(letters(x), letters(y))
       ELSE CompareKeys(cases(x), cases(y))

\* !nft.lowestPrice
NoPrice(nft) == ~(IsDefined(nft.lowestPrice) /\ TruthyNumber(nft.lowestPrice[1]))

\* Mutant: case 'price' without its three no-price cases (a difference with
\* undefined is NaN, which sort takes for 0).
comparePriceWithoutNoPriceCases(a, b) ==
    IF NoPrice(a) \/ NoPrice(b) THEN 0 ELSE a.lowestPrice[1] - b.lowestPrice[1]

\* case 'price' of the comparator
comparePrice(a, b) ==
    IF NoPrice(a) /\ NoPrice(b) THEN 0
    ELSE IF NoPrice(a) THEN 1
    ELSE IF NoPrice(b) THEN -1
    ELSE a.lowestPrice[1] - b.lowestPrice[1]

\* The comparator handed to sort. tokenId is kept as the number parseInt reads
\* from the decimal string tokenId.toString() wrote.
compare(a, b, key) ==
    CASE key = "name" -> localeCompare(a.name, b.name)
      [] key = "collection" -> localeCompare(a.collectionName, b.collectionName)
      [] key = "price" -> comparePrice(a, b)
      [] OTHER -> a.tokenId - b.tokenId

\* Array.prototype.sort is stable: an element moves left only past elements
\* the comparator puts after it.
RECURSIVE Insert(_, _, _)
Insert(sorted, x, key) ==
    IF sorted = <<>> THEN <<x>>
    ELSE IF compare(sorted[Len(sorted)], x, key) > 0
    THEN Insert(SubSeq(sorted, 1, Len(sorted) - 1), x, key) \o <<sorted[Len(sorted)]>>
    ELSE sorted \o <<x>>

RECURSIVE sort(_, _)
sort(list, key) ==
    IF list = <<>> THEN <<>>
    ELSE Insert(sort(SubSeq(list, 1, Len(list) - 1), key), list[Len(list)], key)

\* The predicate handed to filter.
Matches(nft, text) ==
    \/ includes(toLowerCase(nft.name), toLowerCase(text))
    \/ includes(toLowerCase(nft.description), toLowerCase(text))

\* [...list].filter(...).sort(...) for a filter text and a sort key.
ViewOf(list, text, key) == sort(SelectSeq(list, LAMBDA nft : Matches(nft, text)), key)

filteredAndSortedNFTs == ViewOf(nfts, filter, sortBy)

\* Mutant: the sort runs on nfts itself, without the copy [...nfts].
setSortByInPlace(key) ==
    /\ key # sortBy
    /\ sortBy' = key
    /\ nfts' = sort(nfts, key)
    /\ UNCHANGED <<walletAddress, started, runs, loading, error, priceLoading, console, pf, mf, filter, app>>

\* onChange of the sort select: another option is chosen
setSortBy(key) ==
    /\ key # sortBy
    /\ sortBy' = key
    /\ UNCHANGED <<walletAddress, started, runs, nfts, loading, error, priceLoading, console, pf, mf, filter, app>>

\* onChange of the search box: the text is edited
setFilter(text) ==
    /\ text # filter
    /\ filter' = text
    /\ UNCHANGED <<walletAddress, started, runs, nfts, loading, error, priceLoading, console, pf, mf, sortBy, app>>

SortKeys == {"name", "tokenId", "collection", "price"}

\* Texts typed in the search box: nothing, or a text that one of the names
\* below holds in the other case.
FilterTexts == {<<>>, <<"b">>}

\* What the metadata document gives an entry: name and description.
EntryTexts ==
    {[name |-> <<"a">>, description |-> <<>>],
     [name |-> <<"B">>, description |-> <<"a">>]}

\* What the price stage gives an entry: no price, or one of two prices.
EntryPrices ==
    {undefined,
     Some([price |-> 200, currency |-> Some("ETH")]),
     Some([price |-> 500, currency |-> Some("ETH")])}

\* The lists a run can publish for a wallet of up to MaxBalance tokens: the
\* token identifiers are distinct, in the order the contract enumerates them.
PublishedLists ==
    LET Entries ==
            {withPrice([tokenId |-> t, name |-> x.name, description |-> x.description,
                        collectionName |-> <<"a">>,
                        lowestPrice |-> undefined, currency |-> undefined], p) :
                t \in 1..MaxBalance, x \in EntryTexts, p \in EntryPrices}
    IN {list \in SeqsUpTo(Entries, MaxBalance) :
           \A i, j \in DOMAIN list : i # j => list[i].tokenId # list[j].tokenId}

\* The component after a run has published its list.
InitView ==
    /\ walletAddress = 1
    /\ started = 1
    /\ runs = [r \in RunIds |-> IdleRun]
    /\ nfts \in PublishedLists
    /\ loading = FALSE
    /\ error = undefined
    /\ priceLoading = FALSE
    /\ console = EmptyBag
    /\ sortBy = "tokenId"
    /\ filter = <<>>
    /\ pf = IdleCall
    /\ mf = IdleMetadataCall
    /\ app = InitialApp

NextView ==
    \/ \E key \in SortKeys : setSortBy(key)
    \/ \E text \in FilterTexts : setFilter(text)

SpecView == InitView /\ [][NextView]_vars

\* One call of fetchNFTMetadata, on any tokenURI and any image of the document.
InitAddress ==
    /\ walletAddress = 1
    /\ InitComponent
    /\ pf = IdleCall
    /\ mf \in {[IdleMetadataCall EXCEPT !.pc = "call", !.tokenURI = uri, !.image = image] :
                  uri \in Addresses, image \in {undefined} \cup {Some(a) : a \in Addresses}}
    /\ app = InitialApp

NextAddress ==
    \/ MetadataFetch
    \/ MetadataReturn

SpecAddress == InitAddress /\ [][NextAddress]_vars

---------------------------------------------------------------------------
(* App, the catalog browser: the filter and sort effect, the handlers *)

\* Largest number of rows in the CSV file.
MaxRows == 13

\* The fields of a row that App reads.
Fields == {"Collection Name", "Mint Date", "Platform", "Type", "Collaborator/Special Type"}

\* type SortField
SortFields == {"Collection Name", "Mint Date", "Platform", "Type"}

\* Row i of the CSV file. The texts are tuples of characters; a Mint Date is a
\* year, a text new Date() reads. The rows differ in collection name and in
\* Mint Date, and are in the order of neither.
Row(i) ==
    [f \in Fields |->
        CASE f = "Collection Name" ->
                <<(<<"b", "A", "a", "B">>)[(i % 4) + 1], (<<"a", "B", "b", "A">>)[(i \div 4) + 1]>>
          [] f = "Mint Date" ->
                <<"2", "0", Digits[(((7 * i) % 17) \div 10) + 1], Digits[(((7 * i) % 17) % 10) + 1]>>
          [] f = "Platform" -> IF i % 2 = 0 THEN <<"B">> ELSE <<>>
          [] f = "Type" -> IF i % 3 = 0 THEN <<"b">> ELSE <<>>
          [] f = "Collaborator/Special Type" -> IF i % 4 = 0 THEN <<"a", "b">> ELSE <<>>]

\* results.data of Papa.parse: the rows in the order of the file.
CsvFiles == {[i \in 1..n |-> Row(i)] : n \in {0, 3, MaxRows}}

\* Texts typed in the search box: nothing, or a text most rows hold, in one
\* case or the other.
SearchTerms == {<<>>, <<"A">>}

\* The UTF-16 order of the characters: digits, upper case, lower case.
CodeUnitOrder == Digits \o UpperCaseLetters \o LowerCaseLetters
CodeUnit(c) == CHOOSE i \in DOMAIN CodeUnitOrder : CodeUnitOrder[i] = c

\* aValue < bValue, aValue > bValue on strings: -1, 1, or 0 when equal.
CompareStrings(x, y) ==
    CompareKeys([k \in DOMAIN x |-> CodeUnit(x[k])], [k \in DOMAIN y |-> CodeUnit(y[k])])

\* new Date(value).getTime(): NaN for a text that is not a date.
getTime(value) ==
    IF value # <<>> /\ \A k \in DOMAIN value : IsDigit(value[k])
    THEN DecimalValue(value)
    ELSE NaN

\* The comparator of the effect's sort (a NaN result counts as 0 for sort).
compareRows(a, b, field, order) ==
    IF field = "Mint Date"
    THEN LET aDate == getTime(a[field])
             bDate == getTime(b[field])
         IN IF aDate = NaN \/ bDate = NaN THEN 0
            ELSE IF order = "asc" THEN aDate - bDate ELSE bDate - aDate
    ELSE IF order = "asc" THEN CompareStrings(a[field], b[field])
         ELSE -CompareStrings(a[field], b[field])

RECURSIVE InsertRow(_, _, _, _)
InsertRow(sorted, x, field, order) ==
    IF sorted = <<>> THEN <<x>>
    ELSE IF compareRows(sorted[Len(sorted)], x, field, order) > 0
    THEN InsertRow(SubSeq(sorted, 1, Len(sorted) - 1), x, field, order) \o <<sorted[Len(sorted)]>>
    ELSE sorted \o <<x>>

\* filtered.sort(...): the result (Array.prototype.sort is stable).
RECURSIVE sortRows(_, _, _)
sortRows(list, field, order) ==
    IF list = <<>> THEN <<>>
    ELSE InsertRow(sortRows(SubSeq(list, 1, Len(list) - 1), field, order),
                   list[Len(list)], field, order)

\* One of the four filters is set, so that filtered is a new array.
AnyFilter(a) ==
    \/ a.searchTerm # <<>>
    \/ a.platformFilter # <<>>
    \/ a.typeFilter # <<>>
    \/ a.collaboratorFilter # <<>>

\* The four filter steps of the effect.
filterRows(a) ==
    LET searched ==
            IF a.searchTerm # <<>>
            THEN SelectSeq(a.nfts, LAMBDA nft :
                     \E f \in Fields \ {"Mint Date"} :
                         includes(toLowerCase(nft[f]), toLowerCase(a.searchTerm)))
            ELSE a.nfts
        byPlatform ==
            IF a.platformFilter # <<>>
            THEN SelectSeq(searched, LAMBDA nft : nft["Platform"] = a.platformFilter)
            ELSE searched
        byType ==
            IF a.typeFilter # <<>>
            THEN SelectSeq(byPlatform, LAMBDA nft : nft["Type"] = a.typeFilter)
            ELSE byPlatform
    IN IF a.collaboratorFilter # <<>>
       THEN SelectSeq(byType, LAMBDA nft :
                nft["Collaborator/Special Type"] = a.collaboratorFilter)
       ELSE byType

\* Math.ceil(filteredNfts.length / itemsPerPage)
pageCount(a) == (Len(a.filteredNfts) + itemsPerPage - 1) \div itemsPerPage

\* filteredNfts.slice((page - 1) * itemsPerPage, page * itemsPerPage)
paginatedNfts(a) ==
    LET from == (a.page - 1) * itemsPerPage + 1
        to == IF a.page * itemsPerPage < Len(a.filteredNfts)
              THEN a.page * itemsPerPage ELSE Len(a.filteredNfts)
    IN SubSeq(a.filteredNfts, from, to)

\* A render of App that is committed: shown becomes what the render returns.
render(a) ==
    [a EXCEPT !.shown =
        IF a.loading THEN Spinner
        ELSE [spinner |-> FALSE, page |-> a.page, pageCount |-> pageCount(a),
              paginatedNfts |-> paginatedNfts(a)]]

\* The filter and sort effect, with or without its setPage(1). Without a
\* filter, filtered is the array of nfts and sort changes it in place, and with
\* it filteredNfts when that holds the same array. rerender tells whether
\* setFilteredNfts or setPage has changed the state: a set to the value the
\* state already has (the same array, the same page) schedules no render.
effectWith(a, resetsPage) ==
    LET sorted == sortRows(IF AnyFilter(a) THEN filterRows(a) ELSE a.nfts,
                           a.sortField, a.sortOrder)
        newPage == IF resetsPage THEN 1 ELSE a.page
    IN [state |-> [a EXCEPT !.nfts = IF AnyFilter(a) THEN a.nfts ELSE sorted,
                            !.filteredNfts = sorted,
                            !.aliased = ~AnyFilter(a),
                            !.page = newPage],
        rerender |-> AnyFilter(a) \/ ~a.aliased \/ a.page # newPage]

\* Mutant: the effect without setPage(1).
filterSortEffectKeepsPage(a) == effectWith(a, FALSE)

\* useEffect(() => { ... }, [searchTerm, platformFilter, typeFilter,
\* collaboratorFilter, nfts, sortField, sortOrder])
filterSortEffect(a) == effectWith(a, TRUE)

\* The effect runs after a committed render, and a render follows it when it
\* has changed the state.
afterEffect(a) ==
    LET effect == filterSortEffect(a)
    IN IF effect.rerender THEN render(effect.state) ELSE effect.state

\* The dependencies of the effect that the handlers set (nfts is set by the
\* CSV load only).
Deps(a) ==
    <<a.searchTerm, a.platformFilter, a.typeFilter, a.collaboratorFilter,
      a.sortField, a.sortOrder>>

\* What follows a handler that turned the state old into new: nothing when no
\* state has changed, else a render, and the effect when a dependency changed.
afterHandler(old, new) ==
    IF new = old THEN old
    ELSE IF Deps(new) = Deps(old) THEN render(new)
    ELSE afterEffect(render(new))

\* The values a filter select offers besides '' (All): [...new Set(...)].filter(Boolean)
Options(field) == {app.nfts[k][field] : k \in DOMAIN app.nfts} \ {<<>>}

\* The first render of App and the first run of the effect.
AppMount ==
    /\ ~app.mounted
    /\ app' = afterEffect(render([app EXCEPT !.mounted = TRUE]))
    /\ UNCHANGED <<walletAddress, started, runs, nfts, loading, error, priceLoading, console, pf, mf, view>>

\* complete of Papa.parse: setNfts, setFilteredNfts, setLoading(false). The
\* three sets make one render when React batches them; otherwise setNfts is
\* rendered first, the effect runs on the new nfts, and the other sets follow.
CsvLoaded(data, batched) ==
    /\ app.mounted
    /\ app.loading
    /\ app' = IF batched
              THEN afterEffect(render([app EXCEPT !.nfts = data, !.filteredNfts = data,
                                                  !.aliased = TRUE, !.loading = FALSE]))
              ELSE render([filterSortEffect(render([app EXCEPT !.nfts = data,
                                                               !.aliased = FALSE])).state
                              EXCEPT !.loading = FALSE])
    /\ UNCHANGED <<walletAddress, started, runs, nfts, loading, error, priceLoading, console, pf, mf, view>>

\* A handler of App, from the page that is shown.
Handle(new) ==
    /\ app.mounted
    /\ ~app.loading
    /\ app' = afterHandler(app, new)
    /\ UNCHANGED <<walletAddress, started, runs, nfts, loading, error, priceLoading, console, pf, mf, view>>

setSearchTerm(text) ==
    /\ text # app.searchTerm
    /\ Handle([app EXCEPT !.searchTerm = text])

setPlatformFilter(value) ==
    /\ value \in Options("Platform") \cup {<<>>}
    /\ Handle([app EXCEPT !.platformFilter = value])

setTypeFilter(value) ==
    /\ value \in Options("Type") \cup {<<>>}
    /\ Handle([app EXCEPT !.typeFilter = value])

setCollaboratorFilter(value) ==
    /\ value \in Options("Collaborator/Special Type") \cup {<<>>}
    /\ Handle([app EXCEPT !.collaboratorFilter = value])

handleSortChange(field) ==
    /\ field \in SortFields
    /\ Handle(IF app.sortField = field
              THEN [app EXCEPT !.sortOrder = IF app.sortOrder = "asc" THEN "desc" ELSE "asc"]
              ELSE [app EXCEPT !.sortField = field, !.sortOrder = "asc"])

\* onChange of Pagination, which is rendered when pageCount > 1, with count pages.
handlePageChange(value) ==
    /\ app.shown.pageCount > 1
    /\ value \in 1..app.shown.pageCount
    /\ Handle([app EXCEPT !.page = value])

\* onClick of the Clear Filters chip, shown with the filter selects.
clearFilters ==
    /\ app.mounted
    /\ Handle([app EXCEPT !.searchTerm = <<>>, !.platformFilter = <<>>, !.typeFilter = <<>>,
                          !.collaboratorFilter = <<>>, !.sortField = "Mint Date",
                          !.sortOrder = "desc"])

\* The texts of the rows, for the values of the filter selects.
Texts == UNION {{row[f] : f \in Fields} : row \in {Row(i) : i \in 1..MaxRows}}

InitApp ==
    /\ walletAddress = 1
    /\ InitComponent
    /\ pf = IdleCall
    /\ mf = IdleMetadataCall
    /\ app = InitialApp

NextApp ==
    \/ AppMount
    \/ \E data \in CsvFiles, batched \in BOOLEAN : CsvLoaded(data, batched)
    \/ \E text \in SearchTerms : setSearchTerm(text)
    \/ \E value \in Texts : setPlatformFilter(value)
    \/ \E value \in Texts : setTypeFilter(value)
    \/ \E value \in Texts : setCollaboratorFilter(value)
    \/ \E field \in SortFields : handleSortChange(field)
    \/ \E value \in 1..MaxRows : handlePageChange(value)
    \/ clearFilters

SpecApp == InitApp /\ [][NextApp]_vars

---------------------------------------------------------------------------
(* What the component renders *)

\* The return of NFTViewer: the error banner, the spinner while loading or
\* priceLoading, and otherwise the grid of nfts (filter '' and every sort key
\* keep all the entries).
Rendered ==
    [error |-> error,
     spinner |-> (loading \/ priceLoading),
     grid |-> IF loading \/ priceLoading THEN <<>> ELSE nfts]

---------------------------------------------------------------------------
(* Properties of one run (Spec) *)

\* The token the chain holds at an index of the run's wallet.
TokenOf(run, index) == tokenOfOwnerByIndex(run.input, index)

OwnedIndices(run) == 0..(run.balance - 1)

\* The positions of the displayed list that hold token t.
EntriesWith(t) == {k \in DOMAIN nfts : nfts[k].tokenId = t}

TokenIds(list) == [k \in DOMAIN list |-> list[k].tokenId]

\* The indices whose call of fetchNFTMetadata returned an entry, in order.
RECURSIVE OkTokens(_, _)
OkTokens(run, n) ==
    IF n = 0 THEN <<>>
    ELSE OkTokens(run, n - 1)
         \o (IF run.meta[n] = "ok" THEN <<TokenOf(run, n - 1)>> ELSE <<>>)

C3_MetadataFailureIsIsolated ==
    (\E k \in DOMAIN runs[1].meta : runs[1].meta[k] \in {"tokenURI", "fetch", "json"}) =>
        /\ runs[1].pc # "failed"
        /\ error = undefined
        /\ runs[1].pc = "done" =>
              \A index \in OwnedIndices(runs[1]) :
                  runs[1].meta[index + 1] = "ok" => EntriesWith(TokenOf(runs[1], index)) # {}

\* A completed run where one token's metadata fetch failed and a sibling is shown.
C3_Witness ==
    /\ runs[1].pc = "done"
    /\ \E k \in DOMAIN runs[1].meta : runs[1].meta[k] \in {"tokenURI", "fetch", "json"}
    /\ nfts # <<>>

\* C4: when name(), symbol() or balanceOf() fails the run aborts: the error is
\* set, no metadata fetch and no price fetch was launched, and nothing is published.
C4_PrerequisiteFailureAborts ==
    runs[1].pc = "failed" =>
        /\ IsDefined(error)
        /\ runs[1].meta = <<>>
        /\ runs[1].price = <<>>
        /\ nfts = <<>>
        /\ ~loading /\ ~priceLoading
        /\ \E err \in {"name", "symbol", "balanceOf"} :
              console = SetToBag({Line("Error fetching NFTs", undefined, err)})

\* The run aborted because balanceOf() failed.
C4_Witness ==
    /\ runs[1].pc = "failed"
    /\ BagIn(Line("Error fetching NFTs", undefined, "balanceOf"), console)

---------------------------------------------------------------------------
(* Properties of fetchOpenSeaPrice (SpecPrice) *)

\* The listings of a response (none when the request failed or the field is missing).
Listings(resp) ==
    IF resp.http = "ok" /\ IsDefined(resp.data.sell_orders) THEN resp.data.sell_orders[1] ELSE <<>>

\* A listing with a price, and a payment token with decimals and symbol.
WellFormed(order) ==
    /\ IsDefined(order.current_price)
    /\ TruthyNumber(parseFloat(order.current_price[1]))
    /\ IsDefined(order.payment_token_contract)
    /\ IsDefined(order.payment_token_contract[1].decimals)
    /\ IsDefined(order.payment_token_contract[1].symbol)

\* The price of a well-formed listing, converted by that listing's decimals.
ListingPrice(order) ==
    Quotient(parseFloat(order.current_price[1]), order.payment_token_contract[1].decimals)

MinPrice(l) ==
    CHOOSE m \in {ListingPrice(l[k]) : k \in DOMAIN l} :
        \A k \in DOMAIN l : m <= ListingPrice(l[k])

\* C7 (as stated): for every response with at least one listing, in any order,
\* fetchOpenSeaPrice resolves to the minimum converted price over all the listings.
C7_Original ==
    (/\ pf.pc = "returned"
     /\ Listings(pf.resp) # <<>>
     /\ \A k \in DOMAIN Listings(pf.resp) : WellFormed(Listings(pf.resp)[k]))
    => /\ IsDefined(pf.priceData)
       /\ pf.priceData[1].price = MinPrice(Listings(pf.resp))

\* The first listing lacks the payment token, its decimals or its symbol.
FirstListingLacksField(resp) ==
    /\ Listings(resp) # <<>>
    /\ \/ ~IsDefined(Listings(resp)[1].payment_token_contract)
       \/ ~IsDefined(Listings(resp)[1].payment_token_contract[1].decimals)
       \/ ~IsDefined(Listings(resp)[1].payment_token_contract[1].symbol)

\* C8 (as stated): with no listing, a failed or not-OK request, or a payment token
\* lacking decimals or symbol, fetchOpenSeaPrice returns null and the entry has
\* neither price nor currency; it never returns a price with an undefined currency.
C8_Original ==
    /\ (pf.pc = "merged" /\ (Listings(pf.resp) = <<>> \/ FirstListingLacksField(pf.resp))) =>
          pf.nft.lowestPrice = undefined /\ pf.nft.currency = undefined
    /\ pf.pc \in {"returned", "merged"} =>
          ~(IsDefined(pf.priceData) /\ ~IsDefined(pf.priceData[1].currency))

---------------------------------------------------------------------------
(* What the user is left with *)

\* What a completed run for a wallet that owns nothing renders.
RenderedEmptyWallet == [error |-> undefined, spinner |-> FALSE, grid |-> <<>>]

\* C9 (as stated): the final user-visible state of a run for a wallet that owns
\* nothing differs from the final state of a run with a positive balance whose
\* enrichment failed for every token.
C9_Original ==
    runs[1].pc = "done" =>
        /\ runs[1].balance = 0 => Rendered = RenderedEmptyWallet
        /\ (runs[1].balance > 0 /\ \A k \in DOMAIN runs[1].meta : runs[1].meta[k] # "ok") =>
              Rendered # RenderedEmptyWallet

---------------------------------------------------------------------------
(* Properties of overlapping runs (SpecRuns) *)

\* C2 (as stated): a run that was still in flight when a later run started never
\* makes its entries visible: when it completes, the displayed list is unchanged.
C2_Original ==
    [][\A r \in RunIds :
          (r < started /\ runs[r].pc = "prices" /\ runs'[r].pc = "done") => nfts' = nfts]_vars

---------------------------------------------------------------------------
(* Properties of runs one after the other (SpecSeq) *)

\* C10 (as stated): after a run that failed fatally, the error is set and the
\* displayed list holds no entries, none left over from an earlier run either.
C10_Original ==
    (started >= 1 /\ runs[started].pc = "failed") =>
        /\ IsDefined(error)
        /\ nfts = <<>>

---------------------------------------------------------------------------
(* Claims about the stages of one run *)

\* C11: when balanceOf answers zero (name, symbol and balanceOf having
\* succeeded), the run starts no metadata call and no price call, reports no
\* fatal error and no per-item failure, and ends by publishing an empty list.
C11_EmptyWalletCompletesEmpty ==
    (runs[1].pc \in {"metadata", "prices", "done"} /\ runs[1].balance = 0)
        => /\ runs[1].meta = <<>>
           /\ runs[1].price = <<>>
           /\ error = undefined
           /\ console = EmptyBag
           /\ nfts = <<>>
           /\ runs[1].pc = "metadata" => ENABLED MetadataJoin(1)
           /\ runs[1].pc = "prices" => ENABLED PricesJoin(1)
           /\ runs[1].pc = "done" => (~loading /\ ~priceLoading)

\* The run of an empty wallet has ended.
C11_Witness ==
    /\ runs[1].pc = "done"
    /\ runs[1].balance = 0

\* The price call of the run that was issued for token t.
PriceCallsFor(run, t) == {j \in DOMAIN run.price : run.price[j].tokenId = t}

\* C12: in the published list every entry carries the price (and currency)
\* that the price call issued for its own token identifier returned, whatever
\* the order in which the price calls settled and whichever tokens the
\* metadata stage dropped.
C12_PriceBelongsToItsToken ==
    runs[1].pc = "done"
        => \A k \in DOMAIN nfts :
              /\ Cardinality(PriceCallsFor(runs[1], nfts[k].tokenId)) = 1
              /\ \A j \in PriceCallsFor(runs[1], nfts[k].tokenId) :
                    nfts[k] = withPrice(nfts[k], fetchOpenSeaPrice(runs[1].price[j].resp).value)

\* Three tokens, the middle one dropped; the price call of the last token
\* settled before the call of the first, and one found a price, the other not.
C12_Witness ==
    /\ runs[1].pc = "done"
    /\ runs[1].meta = <<"ok", "fetch", "ok">>
    /\ Len(nfts) = 2
    /\ runs[1].price[2].at < runs[1].price[1].at
    /\ IsDefined(nfts[1].lowestPrice) # IsDefined(nfts[2].lowestPrice)

\* The tokens of the run whose metadata call has returned null.
DroppedTokens(run) ==
    {TokenOf(run, i) : i \in {i \in OwnedIndices(run) : run.meta[i + 1] \in MetadataFailures}}

\* The tokens of the run whose metadata call has returned an entry.
SurvivingTokens(run) ==
    {TokenOf(run, i) : i \in {i \in OwnedIndices(run) : run.meta[i + 1] = "ok"}}

\* C13: a token the metadata stage dropped gets no price call and is in no
\* published entry: the price calls are issued for the survivors of the
\* metadata stage, one each, and the published entries are exactly those
\* survivors.
C13_DroppedTokenStaysOut ==
    runs[1].pc \in {"prices", "done"}
        => /\ \A j \in DOMAIN runs[1].price :
                 /\ runs[1].price[j].tokenId \notin DroppedTokens(runs[1])
                 /\ runs[1].price[j].tokenId \in SurvivingTokens(runs[1])
           /\ Len(runs[1].price) = Cardinality(SurvivingTokens(runs[1]))
           /\ runs[1].pc = "done"
                 => /\ \A k \in DOMAIN nfts : nfts[k].tokenId \notin DroppedTokens(runs[1])
                    /\ {nfts[k].tokenId : k \in DOMAIN nfts} = SurvivingTokens(runs[1])

\* A run has published after dropping one token and keeping two.
C13_Witness ==
    /\ runs[1].pc = "done"
    /\ Cardinality(DroppedTokens(runs[1])) = 1
    /\ Len(nfts) = 2
    /\ \A j \in DOMAIN runs[1].price : runs[1].price[j].st = "settled"

\* The metadata calls of the run that have not settled.
PendingMetadata(run) == {i \in 0..(Len(run.meta) - 1) : run.meta[i + 1] = "pending"}

\* The price calls of the run that have not settled.
PendingPrices(run) == DOMAIN run.price \ SettledPrices(run)

\* C14: the stages of a run are barriers. No price call exists while a
\* metadata call of the run is unsettled; nothing is published while a price
\* call of the run is unsettled; and inside a stage every unsettled call can
\* settle next, whatever its siblings have done.
C14_StagesAreBarriers ==
    /\ (runs[1].pc \in {"prices", "done"} \/ runs[1].price # <<>>)
          => PendingMetadata(runs[1]) = {}
    /\ (runs[1].pc = "done" \/ nfts # <<>>)
          => /\ runs[1].pc = "done"
             /\ PendingPrices(runs[1]) = {}
    /\ runs[1].pc = "metadata"
          => \A i \in PendingMetadata(runs[1]) : ENABLED fetchNFTMetadata(1, i)
    /\ runs[1].pc = "prices"
          => \A k \in PendingPrices(runs[1]) : ENABLED fetchOpenSeaPriceSettles(1, k)

\* The price stage of a run with two surviving entries: the call of the second
\* entry has settled and the call of the first has not.
C14_Witness ==
    /\ runs[1].pc = "prices"
    /\ Len(runs[1].price) = 2
    /\ PendingPrices(runs[1]) = {1}

\* The requests of the run that are in flight: the unsettled calls of
\* fetchNFTMetadata and of fetchOpenSeaPrice.
InFlightRequests(run) ==
    Cardinality(PendingMetadata(run)) + Cardinality(PendingPrices(run))

\* C15: the number of requests in flight stays within a limit that does not
\* grow with the balance. The code reads no such limit, so the limit stated
\* here is any number below the largest balance a wallet of the model has.
C15_Original ==
    InFlightRequests(runs[1]) < MaxBalance

---------------------------------------------------------------------------
(* Claims about requests that never get a response *)

\* C16: a run always completes, even when a request never gets a response:
\* while the spinner is on (loading or priceLoading), some step of the run can
\* still be taken.
C16_Original ==
    (loading \/ priceLoading) => ENABLED NextNever

---------------------------------------------------------------------------
(* Claims about the filtered and sorted view *)

\* Position in nfts of the entry with token t.
PositionOf(t) == CHOOSE k \in DOMAIN nfts : nfts[k].tokenId = t

\* C17: sorted by price, the view holds the entries the filter keeps, every
\* entry without a price after every entry with one, the priced entries by
\* ascending price (the one direction the select offers), and entries with
\* equal keys (equal prices, or no price) in the order they have in nfts.
C17_PriceSortPutsUnpricedLast ==
    sortBy = "price"
        => LET shown == filteredAndSortedNFTs
           IN /\ {shown[k] : k \in DOMAIN shown}
                    = {nfts[k] : k \in {k \in DOMAIN nfts : Matches(nfts[k], filter)}}
              /\ \A i, j \in DOMAIN shown :
                    i < j =>
                       /\ ~(NoPrice(shown[i]) /\ ~NoPrice(shown[j]))
                       /\ (~NoPrice(shown[i]) /\ ~NoPrice(shown[j]))
                             => shown[i].lowestPrice[1] <= shown[j].lowestPrice[1]
                       /\ shown[i].lowestPrice = shown[j].lowestPrice
                             => PositionOf(shown[i].tokenId) < PositionOf(shown[j].tokenId)

\* Sorted by price, a list that starts with an entry without a price, holds two
\* entries with the same price whose tokens are not in ascending order, and
\* ends with a second entry without a price.
C17_Witness ==
    /\ sortBy = "price"
    /\ filter = <<>>
    /\ Len(nfts) > 2
    /\ NoPrice(nfts[1])
    /\ ~NoPrice(nfts[2])
    /\ nfts[2].lowestPrice = nfts[3].lowestPrice
    /\ nfts[2].tokenId > nfts[3].tokenId
    /\ filteredAndSortedNFTs = <<nfts[2], nfts[3], nfts[1]>>

\* C18: a change of the filter text or of the sort key leaves nfts as it was,
\* elements and order, and the view is computed anew from it: computed again
\* for the filter and sort key of before the change, it is the view of before
\* the change.
C18_ViewChangesLeaveNftsAlone ==
    [][(filter' # filter \/ sortBy' # sortBy)
          => /\ nfts' = nfts
             /\ ViewOf(nfts', filter, sortBy) = ViewOf(nfts, filter, sortBy)]_vars

\* A filter and a sort key are set that make the view differ from nfts: fewer
\* entries, in another order.
C18_Witness ==
    /\ filter # <<>>
    /\ sortBy = "price"
    /\ Len(filteredAndSortedNFTs) = 2
    /\ Len(nfts) = 3
    /\ filteredAndSortedNFTs # SelectSeq(nfts, LAMBDA nft : Matches(nft, filter))

---------------------------------------------------------------------------
(* Claims about the addresses *)

\* C19: the address that is fetched is the token's metadata location resolved
\* as stated, and the image of the entry is the document's image resolved as
\* stated: an address that starts with 'ipfs://' becomes the gateway followed
\* by the rest; an address without a leading 'ipfs://' (also one that holds
\* 'ipfs://' further on) and the empty string are kept.
C19_Original ==
    LET stated(address) ==
            IF address # <<>> /\ Head(address) = IpfsScheme
            THEN <<IpfsGateway>> \o Tail(address)
            ELSE address
    IN /\ mf.pc \in {"fetched", "returned"} => mf.url = stated(mf.tokenURI)
       /\ (mf.pc = "returned" /\ IsDefined(mf.image))
             => mf.entryImage = stated(mf.image[1])

---------------------------------------------------------------------------
(* Claims about the identifiers of a published list *)

---------------------------------------------------------------------------
(* Claims about runs that overlap *)

\* C21: while the run started for the current inputs is in flight, the spinner
\* is rendered and the grid is not, whatever the earlier runs do: the end of an
\* older run does not clear the flags of the newer one.
C21_Original ==
    (started >= 1 /\ InFlight(runs[started]))
        => /\ Rendered.spinner
           /\ Rendered.grid = <<>>

\* C22: once no run is in flight, an error is set exactly when the run that
\* was started last has failed fatally; in particular the late failure of an
\* older run leaves no error next to the entries of a newer run that succeeded.
C22_Original ==
    (started >= 1 /\ \A r \in RunIds : ~InFlight(runs[r]))
        => (IsDefined(error) <=> runs[started].pc = "failed")

---------------------------------------------------------------------------
(* Claims about App, the catalog browser *)

\* C23: once the catalog is loaded and the effect has run, the page that is
\* shown is in the order of the current sortField and sortOrder, with or
\* without a filter, after a change of the sort and after the CSV load.
C23_Original ==
    (app.mounted /\ ~app.loading)
        => \A i, j \in DOMAIN app.shown.paginatedNfts :
              i < j => compareRows(app.shown.paginatedNfts[i], app.shown.paginatedNfts[j],
                                   app.sortField, app.sortOrder) <= 0

\* C24: once the catalog is loaded and the effects have run, page is between
\* 1 and max(1, pageCount), pageCount being ceil(filteredNfts.length /
\* itemsPerPage), and it is the page that is shown; and every step that changes
\* the search term, a filter, the sort field or the sort order leaves page at 1.
C24_PageStaysInRange ==
    /\ [](app.mounted /\ ~app.loading
            => /\ app.page >= 1
               /\ app.page <= (IF pageCount(app) > 1 THEN pageCount(app) ELSE 1)
               /\ app.shown.page = app.page
               /\ app.shown.pageCount = pageCount(app))
    /\ [][Deps(app') # Deps(app) => app'.page = 1]_vars

\* The second page is shown, under a sort that is not the initial one.
C24_Witness ==
    /\ app.mounted
    /\ ~app.loading
    /\ app.page = 2
    /\ app.shown.page = 2
    /\ app.sortField # "Mint Date"

===========================================================================
